---- MODULE Spec2Model ----
(***************************************************************************)
(* Model of the motor resistance safety loop of Luke_HH                    *)
(* (src/motor_control.py): the MotorController used by the ResistanceGUI   *)
(* buttons, and the vesc_control_safety script (read_telemetry,            *)
(* encoder_counts_to_meters, set_current, stop_motor,                      *)
(* shutdown_and_reel_in, main_loop); and of the countdown threads of the   *)
(* HydroHalo display (src/display_gui.py): confirm_time, start_countdown,  *)
(* save_settings, cleanup_on_exit and the resistance GPIO pin.             *)
(*                                                                         *)
(* Units.  Python floats are modelled by scaled integers:                  *)
(*   currents  in mA            (5.0 A   -> 5000)                          *)
(*   rpm       in 0.1 rpm       (5.0 rpm -> 50)                            *)
(*   lengths   in 10 um         (0.01 m  -> 1000, 1.524 m -> 152400)       *)
(* The inputs are chosen so that every product the code forms is exact in  *)
(* these units (requested currents are multiples of 100 mA) and no encoder *)
(* count lies within the rounding of a length threshold.                   *)
(*                                                                         *)
(* An Optional value is a set: None is {} and a present value x is {x}.    *)
(***************************************************************************)
EXTENDS Integers, Sequences, FiniteSets, TLC

----------------------------------------------------------------------------
(* Bounds of the model *)

\* number of iterations of the `while True` of main_loop that are explored
MaxCycles == 2
\* number of iterations of the reel-in `while True` that are explored
MaxPolls == 2
\* number of GUI button presses (MotorController calls) that are explored
MaxCalls == 3
\* largest magnitude of the small encoder counts the conversion is tried on
MaxCounts == 6
\* number of countdowns started from the display that are explored
MaxThreads == 2
\* longest countdown, in iterations of its loop (the display offers 5 to 15)
MaxDuration == 2

----------------------------------------------------------------------------
(* Hardware / calibration constants, motor_control.py lines 103-121 *)

ENC_COUNTS_PER_REV == 8192
\* math.pi * 0.027 m = 0.0848230 m, in 10 um
SPOOL_CIRCUMFERENCE_M == 8482
\* 0.2 A
PULL_FORCE_CURRENT_THRESHOLD_A == 200
\* 5.0 rpm
RPM_MOVING_THRESHOLD == 50
\* 20.0 A
MAX_ALLOWED_CURRENT_A == 20000
\* -2.0 A
REEL_IN_CURRENT_A == -2000
\* 5 ft * 0.3048 = 1.524 m
STOP_AT_DISTANCE_M == 152400
\* the literal 0.01 m of the reel-in loop
REEL_IN_DONE_M == 1000
\* the ramp factors (0.6, 0.3, 0.1), in tenths
RAMP_FACTORS == <<6, 3, 1>>

\* ResistanceGUI.levels: Low 2 A, Medium 5 A, High 10 A, Extreme 15 A
levels == {2000, 5000, 10000, 15000}

----------------------------------------------------------------------------
(* Inputs *)

None == {}
Some(x) == {x}
Val(o) == CHOOSE x \in o : TRUE

abs(x) == IF x < 0 THEN -x ELSE x
max(x, y) == IF x >= y THEN x ELSE y
min(x, y) == IF x <= y THEN x ELSE y

\* currents a caller may request: inside the limit, at it, and beyond it
RequestedAmps == {5000, 25000, 40000, -25000}
\* currents a caller of MotorController.set_resistance may pass: the GUI
\* levels and one value above MAX_ALLOWED_CURRENT_A
GuiAmps == levels \cup {25000}

\* values.current_motor: -0.05 A (below the threshold) and 0.2 A (at it)
MotorCurrents == {-50, 200}
\* values.rpm: -6.0, -3.0, 0, 5.0
Rpms == {-60, -30, 0, 50}
\* values.encoder_pos: absent, 0, 0.5 cm, just above 1 cm, 1.522 m, 2.0 m
EncoderPos == {None, Some(0), Some(500), Some(967), Some(147000),
               Some(193000)}
\* values.abs_pos: absent or 1.526 m
AbsPos == {None, Some(147400)}

\* what vesc.get_values() can do: raise, or return a values message
Readings ==
    {[ok |-> FALSE, current_motor |-> 0, rpm |-> 0,
      encoder_pos |-> None, abs_pos |-> None]}
    \cup [ok : {TRUE}, current_motor : MotorCurrents, rpm : Rpms,
          encoder_pos : EncoderPos, abs_pos : AbsPos]

NoReading ==
    [ok |-> FALSE, current_motor |-> 0, rpm |-> 0,
     encoder_pos |-> None, abs_pos |-> None]

----------------------------------------------------------------------------
(* Pure functions *)

\* Python's `x or y` on Optional numbers: x when x is truthy (present and
\* non-zero), otherwise y
PyOr(x, y) == IF x # None /\ Val(x) # 0 THEN x ELSE y

\* read_telemetry answering zeros instead of None when get_values() raises
read_telemetry_zeros(values) ==
    IF values.ok
    THEN [motor_current |-> Some(values.current_motor),
          rpm |-> Some(values.rpm),
          enc_pos |-> PyOr(values.encoder_pos, values.abs_pos)]
    ELSE [motor_current |-> Some(0), rpm |-> Some(0), enc_pos |-> None]

\* read_telemetry(): (motor_current, rpm, enc_pos), or (None, None, None)
\* when vesc.get_values() raises
read_telemetry(values) ==
    IF values.ok
    THEN [motor_current |-> Some(values.current_motor),
          rpm |-> Some(values.rpm),
          enc_pos |-> PyOr(values.encoder_pos, values.abs_pos)]
    ELSE [motor_current |-> None, rpm |-> None, enc_pos |-> None]

\* encoder_counts_to_meters dropping the sign of the count
encoder_counts_to_meters_abs(enc_counts) ==
    IF enc_counts = None
    THEN None
    ELSE Some((abs(Val(enc_counts)) * SPOOL_CIRCUMFERENCE_M) \div ENC_COUNTS_PER_REV)

\* encoder_counts_to_meters(enc_counts): None for None, otherwise
\* (enc_counts / ENC_COUNTS_PER_REV) * SPOOL_CIRCUMFERENCE_M
encoder_counts_to_meters(enc_counts) ==
    IF enc_counts = None
    THEN None
    ELSE Some((Val(enc_counts) * SPOOL_CIRCUMFERENCE_M) \div ENC_COUNTS_PER_REV)

\* the value set_current(a) passes to vesc.set_current
ClampedAmps(a) ==
    IF abs(a) > MAX_ALLOWED_CURRENT_A
    THEN max(min(a, MAX_ALLOWED_CURRENT_A), -MAX_ALLOWED_CURRENT_A)
    ELSE a

\* set_current(a) with the outcome ok of vesc.set_current: the value sent,
\* the lines printed, and the value returned to the caller (the function
\* has no return statement)
set_current(a, ok) ==
    [req |-> a,
     sent |-> ClampedAmps(a),
     clampedMsg |-> abs(a) > MAX_ALLOWED_CURRENT_A,
     failedMsg |-> ~ok,
     ret |-> "None"]

\* stop_motor(): set_current(0.0)
stop_motor(ok) == set_current(0, ok)

\* NoPull with `or` in place of `and`
NoPull_or(s) ==
    \/ abs(Val(s.motor_current)) < PULL_FORCE_CURRENT_THRESHOLD_A
    \/ abs(Val(s.rpm)) < RPM_MOVING_THRESHOLD

\* main_loop line 221: emergency stop condition 1
NoPull(s) ==
    /\ abs(Val(s.motor_current)) < PULL_FORCE_CURRENT_THRESHOLD_A
    /\ abs(Val(s.rpm)) < RPM_MOVING_THRESHOLD

\* MinExtension comparing against the 0.01 m of the reel-in loop instead of
\* STOP_AT_DISTANCE_M
MinExtension_nearZero(s) ==
    LET length_m == encoder_counts_to_meters(s.enc_pos)
    IN  /\ length_m # None
        /\ Val(length_m) <= REEL_IN_DONE_M
        /\ Val(s.rpm) < 0

\* MinExtension without the direction guard `rpm < 0`
MinExtension_norpm(s) ==
    LET length_m == encoder_counts_to_meters(s.enc_pos)
    IN  /\ length_m # None
        /\ Val(length_m) <= STOP_AT_DISTANCE_M

\* main_loop lines 230-231: emergency stop condition 2
MinExtension(s) ==
    LET length_m == encoder_counts_to_meters(s.enc_pos)
    IN  /\ length_m # None
        /\ Val(length_m) <= STOP_AT_DISTANCE_M
        /\ Val(s.rpm) < 0

\* the condition main_loop reports for a sample that was read successfully
EmergencyCondition(s) ==
    IF NoPull(s) THEN "NoPullDetected"
    ELSE IF MinExtension(s) THEN "LineNearMinimumExtension"
    ELSE "None"

\* ReelInExit comparing against STOP_AT_DISTANCE_M instead of 0.01
ReelInExit_stopAt(s) ==
    LET length_m == encoder_counts_to_meters(s.enc_pos)
    IN  \/ s.enc_pos = None
        \/ length_m = None
        \/ Val(length_m) <= STOP_AT_DISTANCE_M

\* shutdown_and_reel_in lines 179-188: the three `break`s of the reel-in loop
ReelInExit(s) ==
    LET length_m == encoder_counts_to_meters(s.enc_pos)
    IN  \/ s.enc_pos = None
        \/ length_m = None
        \/ Val(length_m) <= REEL_IN_DONE_M

\* current_level_a * f for the i-th ramp factor
RampAmps(current_level_a, i) == (current_level_a * RAMP_FACTORS[i]) \div 10

----------------------------------------------------------------------------
(* State *)

VARIABLES
    pc,                     \* position of the vesc_control_safety script
    user_selected_current,  \* argument of main_loop
    values,                 \* last answer of vesc.get_values()
    emergency,              \* condition reported by the last loop cycle
    rampIdx,                \* next ramp factor of shutdown_and_reel_in
    cycles,                 \* iterations of the main loop so far
    polls,                  \* iterations of the reel-in loop so far
    shutdowns,              \* calls of shutdown_and_reel_in so far
    interrupted,            \* KeyboardInterrupt was handled
    hw,                     \* calls of vesc.set_current, in order
    last,                   \* outcome of the last set_current call
    gui,                    \* MotorController: "new", "connected", "none"
    calls,                  \* MotorController methods called, in order
    failStreak,             \* failed telemetry reads in a row, up to now
    diag,                   \* line main_loop printed in its last cycle
    geom,                   \* the geometry constants the script runs with
    conv,                   \* inputs and results of the unit conversion
    writeFailed,            \* a ramp or reel-in write of the shutdown failed
    stop_countdown,         \* display_gui: the stop flag
    active_threads,         \* display_gui: the list of countdown threads
    use_gpio,               \* display_gui: GPIO enabled (setup, settings)
    GPIO,                   \* display_gui: "None", "ready" or "cleaned"
    resistance_pin,         \* level driven on RESISTANCE_PIN
    threads,                \* the countdown threads and where they are
    app                     \* the main thread of the display

vars == <<pc, user_selected_current, values, emergency, rampIdx, cycles,
          polls, shutdowns, interrupted, hw, last, gui, calls, failStreak,
          diag, geom, conv, writeFailed, stop_countdown, active_threads,
          use_gpio, GPIO, resistance_pin, threads, app>>

diagVars == <<failStreak, diag>>
unitVars == <<geom, conv>>
displayVars == <<stop_countdown, active_threads, use_gpio, GPIO,
                 resistance_pin, threads, app>>
loopVars == <<pc, user_selected_current, values, emergency, rampIdx, cycles,
              polls, shutdowns, interrupted, last, diagVars, unitVars,
              writeFailed, displayVars>>
\* everything src/motor_control.py works on
motorVars == <<pc, user_selected_current, values, emergency, rampIdx, cycles,
               polls, shutdowns, interrupted, hw, last, gui, calls, diagVars,
               unitVars, writeFailed>>
guiVars == <<gui, calls, diagVars, unitVars, writeFailed, displayVars>>

NoCall == [req |-> 0, sent |-> 0, clampedMsg |-> FALSE, failedMsg |-> FALSE,
           ret |-> "None"]

\* the geometry of lines 105-108
SourceGeometry ==
    [cpr |-> ENC_COUNTS_PER_REV, circ |-> SPOOL_CIRCUMFERENCE_M]

NoConv == [c1 |-> 0, c2 |-> 0, l1 |-> None, l2 |-> None]

\* the countdown threads the display can start
Threads == 1..MaxThreads

\* a thread that confirm_time has not created yet
NoThread == [at |-> "unborn", remaining |-> 0, high |-> FALSE, low |-> FALSE,
             how |-> ""]

\* the main thread inside root.mainloop(), no cleanup_on_exit call so far
AppStart == [at |-> "mainloop", idx |-> 1, joining |-> 0, via |-> "",
             cleanups |-> 0]

\* display_gui.py after its module code ran (lines 49-74 and 133-135): on a
\* Raspberry Pi the pin is set up as an output and driven LOW; elsewhere
\* use_gpio is False and GPIO is None
DisplayLoaded(on_pi) ==
    /\ stop_countdown = FALSE
    /\ active_threads = <<>>
    /\ use_gpio = on_pi
    /\ GPIO = IF on_pi THEN "ready" ELSE "None"
    /\ resistance_pin = "LOW"
    /\ threads = [t \in Threads |-> NoThread]
    /\ app = AppStart

\* the script and the MotorController before anything ran
ScriptInit ==
    /\ pc = "idle"
    /\ user_selected_current = 0
    /\ values = NoReading
    /\ emergency = "None"
    /\ rampIdx = 1
    /\ cycles = 0
    /\ polls = 0
    /\ shutdowns = 0
    /\ interrupted = FALSE
    /\ hw = <<>>
    /\ last = NoCall
    /\ gui = "new"
    /\ calls = <<>>
    /\ failStreak = 0
    /\ diag = ""
    /\ writeFailed = FALSE

Init ==
    /\ ScriptInit
    /\ geom = SourceGeometry
    /\ conv = NoConv
    /\ DisplayLoaded(TRUE)

\* ControllerState of the script, read off its position
ControllerState ==
    CASE pc = "idle" -> "Idle"
      [] pc = "loop" -> "Holding"
      [] pc \in {"ramp", "reel", "poll", "final"} -> "ShuttingDown"
      [] pc = "done" -> "Stopped"

\* one call of vesc.set_current made through set_current at call site `by`
Command(c, by) == [req |-> c.req, sent |-> c.sent, by |-> by]

----------------------------------------------------------------------------
(* vesc_control_safety: main_loop and shutdown_and_reel_in *)

\* main_loop lines 204-205: the first set_current, before the loop
MainLoopStart(a, ok) ==
    /\ pc = "idle"
    /\ user_selected_current' = a
    /\ hw' = Append(hw, Command(set_current(a, ok), "main_loop"))
    /\ last' = set_current(a, ok)
    /\ pc' = "loop"
    /\ UNCHANGED <<values, emergency, rampIdx, cycles, polls, shutdowns,
                   interrupted, gui, calls, diagVars, unitVars,
                   writeFailed, displayVars>>

\* Tick re-issuing the held current before it looks at the sample, so that
\* the re-issue also happens in the cycle that trips
Tick_reissueFirst(v, ok) ==
    /\ pc = "loop"
    /\ cycles < MaxCycles
    /\ cycles' = cycles + 1
    /\ values' = v
    /\ LET s == read_telemetry(v)
           held == Command(set_current(user_selected_current, ok), "hold")
       IN  IF s.motor_current = None
           THEN /\ emergency' = "None"
                /\ diag' = "Telemetry not available"
                /\ failStreak' = failStreak + 1
                /\ UNCHANGED <<pc, hw, last, rampIdx, shutdowns>>
           ELSE IF EmergencyCondition(s) # "None"
           THEN /\ emergency' = EmergencyCondition(s)
                /\ diag' = "Emergency STOP"
                /\ failStreak' = 0
                /\ hw' = hw \o <<held, Command(stop_motor(ok), "trip_stop")>>
                /\ last' = stop_motor(ok)
                /\ shutdowns' = shutdowns + 1
                /\ rampIdx' = 1
                /\ pc' = "ramp"
           ELSE /\ emergency' = "None"
                /\ diag' = ""
                /\ failStreak' = 0
                /\ hw' = Append(hw, held)
                /\ last' = set_current(user_selected_current, ok)
                /\ UNCHANGED <<pc, rampIdx, shutdowns>>
    /\ UNCHANGED <<user_selected_current, polls, interrupted, gui, calls,
                   unitVars, writeFailed, displayVars>>

\* one iteration of the main loop, lines 209-241
Tick(v, ok) ==
    /\ pc = "loop"
    /\ cycles < MaxCycles
    /\ cycles' = cycles + 1
    /\ values' = v
    /\ LET s == read_telemetry(v)
       IN  IF s.motor_current = None
           THEN \* lines 211-214: telemetry not available, continue
                /\ emergency' = "None"
                /\ diag' = "Telemetry not available"
                /\ failStreak' = failStreak + 1
                /\ UNCHANGED <<pc, hw, last, rampIdx, shutdowns>>
           ELSE IF EmergencyCondition(s) # "None"
           THEN \* lines 221-225 and 230-235: stop_motor(), then
                \* shutdown_and_reel_in(user_selected_current) is entered
                /\ emergency' = EmergencyCondition(s)
                /\ diag' = "Emergency STOP"
                /\ failStreak' = 0
                /\ hw' = Append(hw, Command(stop_motor(ok), "trip_stop"))
                /\ last' = stop_motor(ok)
                /\ shutdowns' = shutdowns + 1
                /\ rampIdx' = 1
                /\ pc' = "ramp"
           ELSE \* line 239: keep commanding the selected current
                /\ emergency' = "None"
                /\ diag' = ""
                /\ failStreak' = 0
                /\ hw' = Append(hw, Command(set_current(user_selected_current, ok), "hold"))
                /\ last' = set_current(user_selected_current, ok)
                /\ UNCHANGED <<pc, rampIdx, shutdowns>>
    /\ UNCHANGED <<user_selected_current, polls, interrupted, gui, calls,
                   unitVars, writeFailed, displayVars>>

\* RampStep with a set_current that lets the write error out: it leaves
\* shutdown_and_reel_in and main_loop, and the script ends
RampStep_abortOnFailure(ok) ==
    /\ pc = "ramp"
    /\ LET c == set_current(RampAmps(user_selected_current, rampIdx), ok)
       IN  /\ hw' = Append(hw, Command(c, "ramp"))
           /\ last' = c
    /\ writeFailed' = (writeFailed \/ ~ok)
    /\ IF ~ok
       THEN rampIdx' = rampIdx /\ pc' = "done"
       ELSE IF rampIdx < Len(RAMP_FACTORS)
       THEN rampIdx' = rampIdx + 1 /\ pc' = pc
       ELSE rampIdx' = rampIdx /\ pc' = "reel"
    /\ UNCHANGED <<user_selected_current, values, emergency, cycles, polls,
                   shutdowns, interrupted, gui, calls, diagVars, unitVars,
                   displayVars>>

\* shutdown_and_reel_in lines 170-172: one step of the ramp
RampStep(ok) ==
    /\ pc = "ramp"
    /\ LET c == set_current(RampAmps(user_selected_current, rampIdx), ok)
       IN  /\ hw' = Append(hw, Command(c, "ramp"))
           /\ last' = c
    /\ writeFailed' = (writeFailed \/ ~ok)
    /\ IF rampIdx < Len(RAMP_FACTORS)
       THEN rampIdx' = rampIdx + 1 /\ pc' = pc
       ELSE rampIdx' = rampIdx /\ pc' = "reel"
    /\ UNCHANGED <<user_selected_current, values, emergency, cycles, polls,
                   shutdowns, interrupted, gui, calls, diagVars, unitVars,
                   displayVars>>

\* shutdown_and_reel_in line 176: the reel-in command
ReelInStart(ok) ==
    /\ pc = "reel"
    /\ hw' = Append(hw, Command(set_current(REEL_IN_CURRENT_A, ok), "reel"))
    /\ last' = set_current(REEL_IN_CURRENT_A, ok)
    /\ writeFailed' = (writeFailed \/ ~ok)
    /\ pc' = "poll"
    /\ UNCHANGED <<user_selected_current, values, emergency, rampIdx, cycles,
                   polls, shutdowns, interrupted, gui, calls, diagVars, unitVars,
                   displayVars>>

\* shutdown_and_reel_in lines 177-189: one iteration of the reel-in loop
ReelInPoll(v) ==
    /\ pc = "poll"
    /\ polls < MaxPolls
    /\ polls' = polls + 1
    /\ values' = v
    /\ pc' = IF ReelInExit(read_telemetry(v)) THEN "final" ELSE "poll"
    /\ UNCHANGED <<user_selected_current, emergency, rampIdx, cycles,
                   shutdowns, interrupted, hw, last, gui, calls, diagVars, unitVars,
                   writeFailed, displayVars>>

\* FinalStop that leaves the reel-in current on (stop_motor() missing)
FinalStop_noStop(ok) ==
    /\ pc = "final"
    /\ pc' = "done"
    /\ UNCHANGED <<user_selected_current, values, emergency, rampIdx, cycles,
                   polls, shutdowns, interrupted, hw, last, gui, calls, diagVars, unitVars,
                   writeFailed, displayVars>>

\* FinalStop without the `break` of main_loop: the loop goes on
FinalStop_noBreak(ok) ==
    /\ pc = "final"
    /\ hw' = Append(hw, Command(stop_motor(ok), "final_stop"))
    /\ last' = stop_motor(ok)
    /\ pc' = "loop"
    /\ UNCHANGED <<user_selected_current, values, emergency, rampIdx, cycles,
                   polls, shutdowns, interrupted, gui, calls, diagVars, unitVars,
                   writeFailed, displayVars>>

\* shutdown_and_reel_in lines 191-193, then the `break` of main_loop
FinalStop(ok) ==
    /\ pc = "final"
    /\ hw' = Append(hw, Command(stop_motor(ok), "final_stop"))
    /\ last' = stop_motor(ok)
    /\ pc' = "done"
    /\ UNCHANGED <<user_selected_current, values, emergency, rampIdx, cycles,
                   polls, shutdowns, interrupted, gui, calls, diagVars, unitVars,
                   writeFailed, displayVars>>

\* Interrupt whose handler leaves without stop_motor()
Interrupt_noStop(ok) ==
    /\ pc \in {"loop", "ramp", "reel", "poll", "final"}
    /\ ~interrupted
    /\ interrupted' = TRUE
    /\ pc' = "done"
    /\ UNCHANGED <<user_selected_current, values, emergency, rampIdx, cycles,
                   polls, shutdowns, hw, last, gui, calls, diagVars, unitVars,
                   writeFailed, displayVars>>

\* main_loop lines 242-244: KeyboardInterrupt inside the try block
Interrupt(ok) ==
    /\ pc \in {"loop", "ramp", "reel", "poll", "final"}
    /\ ~interrupted
    /\ interrupted' = TRUE
    /\ hw' = Append(hw, Command(stop_motor(ok), "interrupt_stop"))
    /\ last' = stop_motor(ok)
    /\ pc' = "done"
    /\ UNCHANGED <<user_selected_current, values, emergency, rampIdx, cycles,
                   polls, shutdowns, gui, calls, diagVars, unitVars,
                   writeFailed, displayVars>>

Next ==
    \/ \E a \in RequestedAmps, ok \in BOOLEAN : MainLoopStart(a, ok)
    \/ \E v \in Readings, ok \in BOOLEAN : Tick(v, ok)
    \/ \E ok \in BOOLEAN : RampStep(ok)
    \/ \E ok \in BOOLEAN : ReelInStart(ok)
    \/ \E v \in Readings : ReelInPoll(v)
    \/ \E ok \in BOOLEAN : FinalStop(ok)
    \/ \E ok \in BOOLEAN : Interrupt(ok)

Spec == Init /\ [][Next]_vars

\* what main_loop lets its caller know about failed telemetry reads: the
\* line printed in the failing cycle (lines 211-214); no count is kept
ExposedFailureCount == IF diag = "Telemetry not available" THEN 1 ELSE 0

\* the reel-in loop beyond the iterations that are counted: the `while True`
\* of lines 177-189 has no iteration limit and no timeout
ReelInPollAgain(v) ==
    /\ pc = "poll"
    /\ polls = MaxPolls
    /\ values' = v
    /\ pc' = IF ReelInExit(read_telemetry(v)) THEN "final" ELSE "poll"
    /\ UNCHANGED <<user_selected_current, emergency, rampIdx, cycles, polls,
                   shutdowns, interrupted, hw, last, gui, calls, diagVars,
                   unitVars, writeFailed, displayVars>>

\* the readings explored when whole behaviours are checked: a failed read,
\* and every encoder position with or without pull and inward motion
LiveReadings ==
    {NoReading}
    \cup [ok : {TRUE}, current_motor : MotorCurrents, rpm : {-30, 50},
          encoder_pos : EncoderPos, abs_pos : {None}]

\* the steps the script takes by itself (a KeyboardInterrupt is the
\* operator's)
ScriptStep ==
    \/ \E a \in RequestedAmps, ok \in BOOLEAN : MainLoopStart(a, ok)
    \/ \E v \in LiveReadings, ok \in BOOLEAN : Tick(v, ok)
    \/ \E ok \in BOOLEAN : RampStep(ok)
    \/ \E ok \in BOOLEAN : ReelInStart(ok)
    \/ \E v \in LiveReadings : ReelInPoll(v)
    \/ \E v \in LiveReadings : ReelInPollAgain(v)
    \/ \E ok \in BOOLEAN : FinalStop(ok)

NextLive ==
    \/ ScriptStep
    \/ \E ok \in BOOLEAN : Interrupt(ok)

\* the script is one thread whose sleeps and hardware calls return: it
\* always takes its next step
SpecLive == Init /\ [][NextLive]_vars /\ WF_vars(ScriptStep)

----------------------------------------------------------------------------
(* The unit conversion on its own *)

\* encoder counts the conversion is tried on: small ones of either sign,
\* one turn, and the counts around 1.5 m
Counts ==
    (-MaxCounts..MaxCounts)
    \cup {-147000, -ENC_COUNTS_PER_REV, ENC_COUNTS_PER_REV, 147000}

InitConv ==
    /\ ScriptInit
    /\ geom = SourceGeometry
    /\ conv \in [c1 : Counts, c2 : Counts, l1 : {None}, l2 : {None}]
    /\ DisplayLoaded(TRUE)

\* encoder_counts_to_meters applied to the two counts
Convert ==
    /\ conv.l1 = None
    /\ conv' = [conv EXCEPT !.l1 = encoder_counts_to_meters(Some(conv.c1)),
                            !.l2 = encoder_counts_to_meters(Some(conv.c2))]
    /\ UNCHANGED <<pc, user_selected_current, values, emergency,
                   rampIdx, cycles, polls, shutdowns, interrupted, hw, last,
                   gui, calls, diagVars, geom, writeFailed, displayVars>>

NextConv == Convert

SpecConv == InitConv /\ [][NextConv]_vars

----------------------------------------------------------------------------
(* The script run with edited geometry constants ("edit these", line 103) *)

\* values ENC_COUNTS_PER_REV and SPOOL_CIRCUMFERENCE_M can be edited to: the
\* ones of the source, a zero resolution, a zero and a negative circumference
Geometries ==
    {SourceGeometry,
     [cpr |-> 0, circ |-> SPOOL_CIRCUMFERENCE_M],
     [cpr |-> ENC_COUNTS_PER_REV, circ |-> 0],
     [cpr |-> ENC_COUNTS_PER_REV, circ |-> -SPOOL_CIRCUMFERENCE_M]}

\* nothing between the constants (lines 103-121) and main_loop checks them
InitGeom ==
    /\ ScriptInit
    /\ geom \in Geometries
    /\ conv = NoConv
    /\ DisplayLoaded(TRUE)

\* line 145 raises ZeroDivisionError: enc_counts / ENC_COUNTS_PER_REV
ZeroDivision(g, enc_counts) == enc_counts # None /\ g.cpr = 0

\* encoder_counts_to_meters with the constants of g, when it does not raise
LengthWith(g, enc_counts) ==
    IF enc_counts = None
    THEN None
    ELSE Some((Val(enc_counts) * g.circ) \div g.cpr)

\* main_loop lines 221 and 230-231 with the length computed under g
EmergencyWith(g, s) ==
    LET length_m == LengthWith(g, s.enc_pos)
    IN  IF NoPull(s) THEN "NoPullDetected"
        ELSE IF /\ length_m # None
                /\ Val(length_m) <= STOP_AT_DISTANCE_M
                /\ Val(s.rpm) < 0
        THEN "LineNearMinimumExtension"
        ELSE "None"

\* one iteration of the main loop, lines 209-241, under geometry geom
GeomTick(v, ok) ==
    /\ pc = "loop"
    /\ cycles < MaxCycles
    /\ cycles' = cycles + 1
    /\ values' = v
    /\ LET s == read_telemetry(v)
       IN  IF s.motor_current = None
           THEN /\ emergency' = "None"
                /\ diag' = "Telemetry not available"
                /\ failStreak' = failStreak + 1
                /\ UNCHANGED <<pc, hw, last, rampIdx, shutdowns>>
           ELSE IF ZeroDivision(geom, s.enc_pos)
           THEN \* line 217: the exception is not a KeyboardInterrupt, it
                \* leaves main_loop and ends the script; nothing is written
                /\ pc' = "crashed"
                /\ UNCHANGED <<emergency, diag, failStreak, hw, last, rampIdx,
                               shutdowns>>
           ELSE IF EmergencyWith(geom, s) # "None"
           THEN /\ emergency' = EmergencyWith(geom, s)
                /\ diag' = "Emergency STOP"
                /\ failStreak' = 0
                /\ hw' = Append(hw, Command(stop_motor(ok), "trip_stop"))
                /\ last' = stop_motor(ok)
                /\ shutdowns' = shutdowns + 1
                /\ rampIdx' = 1
                /\ pc' = "ramp"
           ELSE /\ emergency' = "None"
                /\ diag' = ""
                /\ failStreak' = 0
                /\ hw' = Append(hw, Command(set_current(user_selected_current, ok), "hold"))
                /\ last' = set_current(user_selected_current, ok)
                /\ UNCHANGED <<pc, rampIdx, shutdowns>>
    /\ UNCHANGED <<user_selected_current, polls, interrupted, gui, calls,
                   unitVars, writeFailed, displayVars>>

\* one iteration of the reel-in loop, lines 177-189, under geometry geom
GeomReelInPoll(v) ==
    /\ pc = "poll"
    /\ polls < MaxPolls
    /\ polls' = polls + 1
    /\ values' = v
    /\ LET s == read_telemetry(v)
       IN  pc' = IF s.enc_pos = None THEN "final"
                 ELSE IF ZeroDivision(geom, s.enc_pos) THEN "crashed"
                 ELSE IF Val(LengthWith(geom, s.enc_pos)) <= REEL_IN_DONE_M
                 THEN "final"
                 ELSE "poll"
    /\ UNCHANGED <<user_selected_current, emergency, rampIdx, cycles,
                   shutdowns, interrupted, hw, last, gui, calls, diagVars,
                   unitVars, writeFailed, displayVars>>

NextGeom ==
    \/ \E a \in RequestedAmps, ok \in BOOLEAN : MainLoopStart(a, ok)
    \/ \E v \in LiveReadings, ok \in BOOLEAN : GeomTick(v, ok)
    \/ \E ok \in BOOLEAN : RampStep(ok)
    \/ \E ok \in BOOLEAN : ReelInStart(ok)
    \/ \E v \in LiveReadings : GeomReelInPoll(v)
    \/ \E ok \in BOOLEAN : FinalStop(ok)
    \/ \E ok \in BOOLEAN : Interrupt(ok)

SpecGeom == InitGeom /\ [][NextGeom]_vars

----------------------------------------------------------------------------
(* MotorController, driven by the ResistanceGUI buttons *)

\* one entry of `calls`: the method, its argument, the length of hw when it
\* returned, and whether it left by an exception
Call(op, arg, n, raised) == [op |-> op, arg |-> arg, hwLen |-> n, raised |-> raised]

\* MotorController.__init__ lines 5-11: self.vesc is a VESC or None
Construct(ok) ==
    /\ gui = "new"
    /\ gui' = IF ok THEN "connected" ELSE "none"
    /\ UNCHANGED <<loopVars, hw, calls>>

\* MotorController.set_resistance(current), lines 13-23
set_resistance(current, ok) ==
    /\ gui # "new"
    /\ Len(calls) < MaxCalls
    /\ IF gui = "none"
       THEN hw' = hw
       ELSE hw' = Append(hw, [req |-> current, sent |-> current, by |-> "set_resistance"])
    /\ calls' = Append(calls, Call("set_resistance", current, Len(hw'), FALSE))
    /\ UNCHANGED <<loopVars, gui>>

\* MotorController.stop(), lines 25-29
stop(ok) ==
    /\ gui # "new"
    /\ Len(calls) < MaxCalls
    /\ IF gui = "none"
       THEN hw' = hw
       ELSE hw' = Append(hw, [req |-> 0, sent |-> 0, by |-> "stop"])
    /\ calls' = Append(calls, Call("stop", 0, Len(hw'), gui # "none" /\ ~ok))
    /\ UNCHANGED <<loopVars, gui>>

NextGUI ==
    \/ \E ok \in BOOLEAN : Construct(ok)
    \/ \E c \in GuiAmps, ok \in BOOLEAN : set_resistance(c, ok)
    \/ \E ok \in BOOLEAN : stop(ok)

SpecGUI == Init /\ [][NextGUI]_vars

----------------------------------------------------------------------------
(* The HydroHalo display: countdown threads and the resistance pin *)

\* countdown lengths the level window can start, in loop iterations
Durations == 1..MaxDuration

\* threading.Thread.is_alive()
is_alive(t) == threads[t].at \notin {"unborn", "finished"}

\* the guard `if use_gpio and GPIO:` of lines 152, 242 and 282
GpioEnabled == use_gpio /\ GPIO # "None"

\* the pin after GPIO.output(RESISTANCE_PIN, level) inside try/except: the
\* call raises once GPIO.cleanup() has released the channel, and the handler
\* only prints
GPIO_output(level) == IF GPIO = "ready" THEN level ELSE resistance_pin

\* active_threads without thread t (list.remove)
Removed(t) == SelectSeq(active_threads, LAMBDA x : x # t)

\* select_level.confirm_time, lines 406-432: clear the stop flag, create the
\* thread, append it to active_threads and start it
confirm_time(d) ==
    /\ app.at = "mainloop"
    /\ \E t \in Threads :
          /\ threads[t].at = "unborn"
          /\ \A u \in Threads : u < t => threads[u].at # "unborn"
          /\ threads' = [threads EXCEPT ![t] =
                             [NoThread EXCEPT !.at = "start", !.remaining = d]]
          /\ active_threads' = Append(active_threads, t)
    /\ stop_countdown' = FALSE
    /\ UNCHANGED <<motorVars, use_gpio, GPIO, resistance_pin, app>>

\* open_settings.save_settings, lines 539-541
save_settings(g) ==
    /\ app.at = "mainloop"
    /\ use_gpio' = g
    /\ UNCHANGED <<motorVars, stop_countdown, active_threads,
                   GPIO, resistance_pin, threads, app>>

\* start_countdown lines 238-247: log the session, turn the resistance on
TurnOn(t) ==
    /\ threads[t].at = "start"
    /\ resistance_pin' = IF GpioEnabled THEN GPIO_output("HIGH")
                         ELSE resistance_pin
    /\ threads' = [threads EXCEPT ![t].at = "count",
                                  ![t].high = GpioEnabled /\ GPIO = "ready"]
    /\ UNCHANGED <<motorVars, stop_countdown, active_threads,
                   use_gpio, GPIO, app>>

\* start_countdown lines 250-261: the head of one loop iteration, up to the
\* root.after call, which returns or raises; an exception goes to the
\* handler of lines 289-291, which only reports it
Countdown(t, raised) ==
    /\ threads[t].at = "count"
    /\ threads' =
         IF threads[t].remaining = 0 \/ stop_countdown
         THEN [threads EXCEPT ![t].at = "complete"]
         ELSE IF raised
         THEN [threads EXCEPT ![t].at = "finally", ![t].how = "error"]
         ELSE [threads EXCEPT ![t].at = "sleep"]
    /\ UNCHANGED <<motorVars, stop_countdown, active_threads,
                   use_gpio, GPIO, resistance_pin, app>>

\* start_countdown lines 264-272: the one-second sleep and the `break` on
\* the stop flag
Sleep(t) ==
    /\ threads[t].at = "sleep"
    /\ threads' =
         IF stop_countdown
         THEN [threads EXCEPT ![t].at = "complete"]
         ELSE [threads EXCEPT ![t].at = "count",
                              ![t].remaining = threads[t].remaining - 1]
    /\ UNCHANGED <<motorVars, stop_countdown, active_threads,
                   use_gpio, GPIO, resistance_pin, app>>

\* start_countdown lines 275-279: unless the stop flag is set, post the
\* "cycle complete" message, the flash and the sound
Completion(t, raised) ==
    /\ threads[t].at = "complete"
    /\ threads' =
         IF stop_countdown
         THEN [threads EXCEPT ![t].at = "off", ![t].how = "stopped"]
         ELSE IF raised
         THEN [threads EXCEPT ![t].at = "finally", ![t].how = "error"]
         ELSE [threads EXCEPT ![t].at = "off", ![t].how = "completed"]
    /\ UNCHANGED <<motorVars, stop_countdown, active_threads,
                   use_gpio, GPIO, resistance_pin, app>>

\* start_countdown lines 282-287: turn the resistance off
TurnOff(t) ==
    /\ threads[t].at = "off"
    /\ resistance_pin' = IF GpioEnabled THEN GPIO_output("LOW")
                         ELSE resistance_pin
    /\ threads' = [threads EXCEPT ![t].at = "finally",
                                  ![t].low = GpioEnabled /\ GPIO = "ready"]
    /\ UNCHANGED <<motorVars, stop_countdown, active_threads,
                   use_gpio, GPIO, app>>

\* start_countdown lines 292-298: the thread removes itself and ends
ThreadFinished(t) ==
    /\ threads[t].at = "finally"
    /\ active_threads' = Removed(t)
    /\ threads' = [threads EXCEPT ![t].at = "finished"]
    /\ UNCHANGED <<motorVars, stop_countdown, use_gpio, GPIO,
                   resistance_pin, app>>

\* cleanup_on_exit lines 140-144, entered from the window-close handler
\* (line 162), from the KeyboardInterrupt that ends root.mainloop() (line
\* 621), and once more from the `finally` of line 627 after root.destroy()
cleanup_on_exit(via) ==
    /\ \/ app.at = "mainloop" /\ via \in {"close", "interrupt"}
       \/ app.at = "destroyed" /\ via = app.via
    /\ stop_countdown' = TRUE
    /\ app' = [app EXCEPT !.at = "join", !.idx = 1, !.via = via]
    /\ UNCHANGED <<motorVars, active_threads, use_gpio, GPIO,
                   resistance_pin, threads>>

\* cleanup_on_exit line 147: `for thread in active_threads` takes the element
\* at the iterator's index of the list as it is now, or ends the loop
JoinLoop ==
    /\ app.at = "join"
    /\ app' = IF app.idx <= Len(active_threads)
              THEN [app EXCEPT !.at = "joining", !.idx = app.idx + 1,
                               !.joining = active_threads[app.idx]]
              ELSE [app EXCEPT !.at = "gpio"]
    /\ UNCHANGED <<motorVars, stop_countdown, active_threads,
                   use_gpio, GPIO, resistance_pin, threads>>

\* cleanup_on_exit lines 148-149: thread.join(timeout=1.0) returns when the
\* thread has ended, or when the timeout has passed
JoinReturn(timedOut) ==
    /\ app.at = "joining"
    /\ timedOut \/ ~is_alive(app.joining)
    /\ app' = [app EXCEPT !.at = "join"]
    /\ UNCHANGED <<motorVars, stop_countdown, active_threads,
                   use_gpio, GPIO, resistance_pin, threads>>

\* cleanup_on_exit lines 152-158: drive the pin LOW and release the channel
\* (GPIO.cleanup() makes it an input); a second call finds the channel
\* released, GPIO.output raises and the handler prints
CleanupGpio ==
    /\ app.at = "gpio"
    /\ IF GpioEnabled /\ GPIO = "ready"
       THEN resistance_pin' = "LOW" /\ GPIO' = "cleaned"
       ELSE UNCHANGED <<resistance_pin, GPIO>>
    /\ app' = [app EXCEPT !.cleanups = app.cleanups + 1,
                          !.at = IF app.via = "close" /\ app.cleanups = 0
                                 THEN "destroyed" ELSE "exited"]
    /\ UNCHANGED <<motorVars, stop_countdown, active_threads,
                   use_gpio, threads>>

\* one step of some countdown thread
ThreadStep ==
    \E t \in Threads :
        \/ TurnOn(t)
        \/ \E raised \in BOOLEAN : Countdown(t, raised)
        \/ Sleep(t)
        \/ \E raised \in BOOLEAN : Completion(t, raised)
        \/ TurnOff(t)
        \/ ThreadFinished(t)

\* one step of cleanup_on_exit once it has been entered
CleanupStep ==
    \/ cleanup_on_exit(app.via) /\ app.at = "destroyed"
    \/ JoinLoop
    \/ \E timedOut \in BOOLEAN : JoinReturn(timedOut)
    \/ CleanupGpio

NextDisplay ==
    \/ \E d \in Durations : confirm_time(d)
    \/ \E g \in BOOLEAN : save_settings(g)
    \/ \E via \in {"close", "interrupt"} : cleanup_on_exit(via)
    \/ JoinLoop
    \/ \E timedOut \in BOOLEAN : JoinReturn(timedOut)
    \/ CleanupGpio
    \/ \E t \in Threads : TurnOn(t)
    \/ \E t \in Threads, raised \in BOOLEAN : Countdown(t, raised)
    \/ \E t \in Threads : Sleep(t)
    \/ \E t \in Threads, raised \in BOOLEAN : Completion(t, raised)
    \/ \E t \in Threads : TurnOff(t)
    \/ \E t \in Threads : ThreadFinished(t)

\* the display starts on a Raspberry Pi or on a PC
InitDisplay ==
    /\ ScriptInit
    /\ geom = SourceGeometry
    /\ conv = NoConv
    /\ \E on_pi \in BOOLEAN : DisplayLoaded(on_pi)

SpecDisplay == InitDisplay /\ [][NextDisplay]_vars

\* the countdown threads are scheduled, and cleanup_on_exit, once entered,
\* runs on (its join has a timeout)
SpecDisplayLive ==
    SpecDisplay /\ WF_vars(ThreadStep) /\ WF_vars(CleanupStep)

----------------------------------------------------------------------------
(* Properties *)

\* the last call of vesc.set_current
LastHw == hw[Len(hw)]

\* `values` still holds the sample of the last main-loop cycle, and that
\* sample was read successfully
LastTickSample == cycles > 0 /\ polls = 0 /\ values.ok

\* the no-pull predicate of the specification, on the sample
SampleNoPull ==
    /\ abs(values.current_motor) < PULL_FORCE_CURRENT_THRESHOLD_A
    /\ abs(values.rpm) < RPM_MOVING_THRESHOLD

\* the LinearPosition the loop derives from the sample
SamplePosition == encoder_counts_to_meters(read_telemetry(values).enc_pos)

\* the minimum-extension predicate of the specification, on the sample
SampleMinExtension ==
    /\ SamplePosition # None
    /\ Val(SamplePosition) <= STOP_AT_DISTANCE_M
    /\ values.rpm < 0

\* C1: every current value written to the motor hardware, by any operation
\* and for every requested value, lies within
\* [-MAX_ALLOWED_CURRENT_A, +MAX_ALLOWED_CURRENT_A].
C1_WrittenWithinLimit ==
    \A i \in DOMAIN hw : abs(hw[i].sent) <= MAX_ALLOWED_CURRENT_A

\* C2: set_current forwards exactly +-MAX_ALLOWED_CURRENT_A for a request
\* beyond the limit and tells its caller that it clamped; a request within
\* the limit is forwarded unchanged with no clamping signal.
C2_ClampExactAndSignalled ==
    (Len(hw) > 0 /\ pc # "idle") =>
        IF abs(last.req) > MAX_ALLOWED_CURRENT_A
        THEN /\ last.req > 0 => last.sent = MAX_ALLOWED_CURRENT_A
             /\ last.req < 0 => last.sent = -MAX_ALLOWED_CURRENT_A
             /\ last.ret # "None"
        ELSE /\ last.sent = last.req
             /\ last.ret = "None"

\* C3: for a sample that was read successfully the no-pull emergency is
\* raised exactly when |motor current| < 0.2 A and |rpm| < 5.0, whatever the
\* encoder position; when the minimum-extension predicate holds too, the
\* condition reported is NoPullDetected.
C3_NoPullIff ==
    LastTickSample =>
        /\ (emergency = "NoPullDetected") <=> SampleNoPull
        /\ emergency = "NoPullDetected" =>
               shutdowns = 1 /\ ControllerState \in {"ShuttingDown", "Stopped"}

C3_Witness ==
    /\ LastTickSample
    /\ SampleNoPull
    /\ SampleMinExtension
    /\ emergency = "NoPullDetected"
    /\ pc = "ramp"

C5_NoSpuriousTrip ==
    (LastTickSample /\ ~SampleNoPull /\ ~SampleMinExtension) =>
        /\ emergency = "None"
        /\ shutdowns = 0
        /\ ~interrupted =>
              /\ ControllerState = "Holding"
              /\ LastHw.by = "hold"
              /\ LastHw.req = user_selected_current
              /\ hw[1].req = user_selected_current

\* powered on while resting below the minimum extension, not moving inward
C5_Witness ==
    /\ LastTickSample
    /\ cycles = 1
    /\ ~SampleNoPull
    /\ SamplePosition # None
    /\ Val(SamplePosition) <= STOP_AT_DISTANCE_M
    /\ values.rpm >= 0
    /\ ControllerState = "Holding"
    /\ LastHw.by = "hold"

\* the commands issued since the safety trip
SinceTrip == SelectSeq(hw, LAMBDA e : e.by \notin {"main_loop", "hold"})

\* C6: the current commands issued from the trip up to the first reel-in
\* command are exactly 0.6*a, 0.3*a, 0.1*a, in that order, with no other
\* command before or between them.
C6_RampOnly ==
    (pc = "reel" /\ ~interrupted) =>
        [i \in 1..Len(SinceTrip) |-> SinceTrip[i].req]
            = << (6 * user_selected_current) \div 10,
                 (3 * user_selected_current) \div 10,
                 user_selected_current \div 10 >>

\* the exit condition of the reel-in loop as the specification states it,
\* on the reading v of one polling iteration
PollExit(v) ==
    LET position == encoder_counts_to_meters(read_telemetry(v).enc_pos)
    IN  position = None \/ Val(position) <= REEL_IN_DONE_M

\* C7: the reel-in loop exits at the first polling iteration in which the
\* position is None or the length is <= 0.01 m, and at no earlier one; on
\* exit the next current command is the final stop 0.0 and no further
\* reel-in current is commanded.
C7_ReelInExit ==
    [][ /\ (pc = "poll" /\ polls' = polls + 1) =>
               /\ PollExit(values') => pc' = "final" /\ hw' = hw
               /\ ~PollExit(values') => pc' = "poll" /\ hw' = hw
        /\ (pc = "poll" /\ pc' # "poll") => (polls' = polls + 1 \/ interrupted')
        /\ (pc \in {"final", "done"} /\ hw' # hw) =>
               /\ Len(hw') = Len(hw) + 1
               /\ hw'[Len(hw')].sent = 0
               /\ hw'[Len(hw')].by # "reel"
      ]_vars

\* the first poll saw 1 cm < length, the second saw the line retracted
C7_Witness ==
    /\ pc = "done"
    /\ ~interrupted
    /\ polls = 2
    /\ values.ok
    /\ values.encoder_pos = Some(500)
    /\ LastHw.by = "final_stop"

\* C8: a Shutdown Sequence that completes ends with a zero-current command,
\* issued after all ramp-down and reel-in commands, and the controller is
\* then Stopped.
C8_EndsWithZero ==
    (pc = "done" /\ ~interrupted) =>
        /\ shutdowns = 1
        /\ LastHw.sent = 0
        /\ LastHw.by = "final_stop"
        /\ \A i \in 1..(Len(hw) - 1) : hw[i].by # "final_stop"
        /\ \E i \in 1..(Len(hw) - 1) : hw[i].by = "reel"
        /\ Cardinality({i \in DOMAIN hw : hw[i].by = "ramp"}) = Len(RAMP_FACTORS)
        /\ ControllerState = "Stopped"

C8_Witness ==
    /\ pc = "done"
    /\ ~interrupted
    /\ shutdowns = 1
    /\ LastHw.by = "final_stop"
    /\ hw[Len(hw) - 1].sent = REEL_IN_CURRENT_A

Rank(st) ==
    CASE st = "Idle" -> 0
      [] st = "Holding" -> 1
      [] st = "ShuttingDown" -> 2
      [] st = "Stopped" -> 3

\* C9: each safety trip triggers exactly one Shutdown Sequence, after which
\* the controller is Stopped: once Stopped no further control cycle runs and
\* no non-zero current is commanded, and the state only moves along
\* Idle -> Holding -> ShuttingDown -> Stopped (KeyboardInterrupt, the
\* script's stop, goes to Stopped directly).
C9_OneShutdownThenStopped ==
    [][ /\ shutdowns' <= 1
        /\ (cycles' = cycles + 1 /\ emergency' # "None") =>
               shutdowns' = shutdowns + 1 /\ ControllerState' = "ShuttingDown"
        /\ shutdowns' # shutdowns =>
               cycles' = cycles + 1 /\ emergency' # "None"
        /\ ControllerState = "Stopped" =>
               /\ ControllerState' = "Stopped"
               /\ cycles' = cycles
               /\ \A i \in (Len(hw) + 1)..Len(hw') : hw'[i].sent = 0
        /\ \/ ControllerState' = ControllerState
           \/ Rank(ControllerState') = Rank(ControllerState) + 1
           \/ ControllerState' = "Stopped" /\ interrupted' /\ ~interrupted
      ]_vars

C9_Witness ==
    /\ pc = "done"
    /\ ~interrupted
    /\ shutdowns = 1
    /\ emergency # "None"
    /\ cycles < MaxCycles

\* the vesc.set_current calls made by the i-th MotorController call
WritesOfCall(i) ==
    SubSeq(hw, (IF i = 1 THEN 0 ELSE calls[i - 1].hwLen) + 1, calls[i].hwLen)

\* C10: two stop() calls in sequence issue the zero-current command to the
\* hardware exactly once.
C10_StopIdempotent ==
    \A i \in 1..(Len(calls) - 1) :
        (gui = "connected" /\ calls[i].op = "stop" /\ calls[i + 1].op = "stop") =>
            Len(WritesOfCall(i) \o WritesOfCall(i + 1)) = 1


\* C11: a control cycle whose telemetry read fails is skipped: state and
\* held current are unchanged, no current command is written, no emergency
\* is raised, no Shutdown Sequence starts, and the failure is reported by a
\* diagnostic line.
C11_FailedReadSkipsCycle ==
    [][ (pc = "loop" /\ cycles' = cycles + 1) =>
            /\ ~values'.ok =>
                   /\ ControllerState' = ControllerState
                   /\ user_selected_current' = user_selected_current
                   /\ hw' = hw
                   /\ emergency' = "None"
                   /\ shutdowns' = shutdowns
                   /\ diag' = "Telemetry not available"
            /\ values'.ok => diag' # "Telemetry not available"
      ]_vars

\* a failed read after a normal cycle: still Holding, nothing written
C11_Witness ==
    /\ pc = "loop"
    /\ cycles = 2
    /\ ~values.ok
    /\ diag = "Telemetry not available"
    /\ Len(hw) = 2
    /\ LastHw.by = "hold"
    /\ shutdowns = 0

\* C12: once triggered, a Shutdown Sequence runs ramp-down, reel-in and
\* final stop in order to completion; nothing arriving mid-sequence, an
\* interrupt included, skips a phase or ends it early.
C12_RunsToCompletion ==
    (shutdowns = 1 /\ pc = "done") =>
        /\ Cardinality({i \in DOMAIN hw : hw[i].by = "ramp"}) = Len(RAMP_FACTORS)
        /\ \E i \in DOMAIN hw : hw[i].by = "reel"
        /\ LastHw.by = "final_stop"


\* C13: every triggered Shutdown Sequence eventually reaches the final stop,
\* whatever the telemetry does, an encoder that keeps reporting a known
\* length above 0.01 m included.
C13_ShutdownTerminates == (shutdowns = 1) ~> (pc = "done")


\* a requested current brought into the limit
WithinLimit(a) ==
    IF a > MAX_ALLOWED_CURRENT_A THEN MAX_ALLOWED_CURRENT_A
    ELSE IF a < -MAX_ALLOWED_CURRENT_A THEN -MAX_ALLOWED_CURRENT_A
    ELSE a

\* main_loop(a): the first command carries a, clamped, before any telemetry
\* is read, and every later normal cycle re-issues that value
C14_MainLoopPart ==
    pc # "idle" =>
        /\ hw[1] = [req |-> user_selected_current,
                    sent |-> WithinLimit(user_selected_current),
                    by |-> "main_loop"]
        /\ cycles = 0 => (Len(hw) = 1 \/ interrupted) /\ values = NoReading
        /\ \A i \in DOMAIN hw :
               hw[i].by = "hold" =>
                   hw[i].req = hw[1].req /\ hw[i].sent = hw[1].sent

\* MotorController.set_resistance(a) on a connected controller, from Idle or
\* after stop(): one command, carrying a clamped to the limit
C14_SetResistancePart ==
    \A i \in DOMAIN calls :
        (gui = "connected" /\ calls[i].op = "set_resistance") =>
            /\ Len(WritesOfCall(i)) = 1
            /\ WritesOfCall(i)[1].sent = WithinLimit(calls[i].arg)

\* C14: setting a resistance level a from Idle or Stopped issues the first
\* current command carrying a, clamped to the limit, before any telemetry is
\* read, and every later normal cycle re-issues that same value.
C14_FirstCommandCarriesLevel == C14_MainLoopPart /\ C14_SetResistancePart

\* C15: when the hardware write fails, set_current reports the failure to
\* its caller instead of swallowing it.
C15_WriteFailureReported ==
    (Len(hw) > 0 /\ pc # "idle" /\ last.failedMsg) => last.ret # "None"


\* C16: the conversion gives 0 for 0 counts and is monotonic in the counts,
\* negative, zero and positive, with
\* length = (counts / ENC_COUNTS_PER_REV) * SPOOL_CIRCUMFERENCE_M (here to
\* the length unit, rounded down).
C16_ConversionMonotonic ==
    conv.l1 # None =>
        /\ conv.l2 # None
        /\ conv.c1 = 0 => Val(conv.l1) = 0
        /\ conv.c1 <= conv.c2 => Val(conv.l1) <= Val(conv.l2)
        /\ ENC_COUNTS_PER_REV * Val(conv.l1) <= conv.c1 * SPOOL_CIRCUMFERENCE_M
        /\ conv.c1 * SPOOL_CIRCUMFERENCE_M < ENC_COUNTS_PER_REV * (Val(conv.l1) + 1)

C16_Witness ==
    /\ conv.l1 # None
    /\ conv.c1 < 0
    /\ conv.c2 > 0
    /\ Val(conv.l1) < 0
    /\ Val(conv.l2) > 0


\* geometry the specification refuses: non-positive spool circumference or
\* zero encoder resolution
InvalidGeometry(g) == g.circ <= 0 \/ g.cpr = 0

\* C17: with invalid geometry the controller is never brought into operation
\* and no current command is ever written to the hardware.
C17_InvalidGeometryRefused ==
    InvalidGeometry(geom) => (pc = "idle" /\ hw = <<>>)


\* C18: the controller exposes the count of consecutive failed telemetry
\* reads: one more on each failed read in Holding, zero after a successful
\* read.
C18_FailureCountExposed ==
    pc = "loop" => ExposedFailureCount = failStreak

\* C19: during reel-in the reel-in current is issued once per polling
\* iteration: there is a reel-in command before every telemetry read of the
\* loop.
C19_ReelInReissued ==
    polls <= Cardinality({i \in DOMAIN hw : hw[i].by = "reel"})

\* the cycle that is being taken reads its sample successfully
SuccessfulCycle == pc = "loop" /\ cycles' = cycles + 1 /\ values'.ok

C21_PositionKnownIffReported ==
    LastTickSample =>
        /\ (SamplePosition = None)
               <=> (values.encoder_pos = None /\ values.abs_pos = None)
        /\ values.encoder_pos = Some(0) => SamplePosition = Some(0)


\* the ramp commands of the Shutdown Sequence, in the order they were issued
RampWrites == SelectSeq(hw, LAMBDA e : e.by = "ramp")

\* C22: for every non-zero requested current, beyond the limit included,
\* each of the three ramp-down values written to the hardware is strictly
\* smaller in magnitude than the current held before the trip (the clamped
\* request), and the three written magnitudes are strictly decreasing.
C22_RampStrictlyDecreasing ==
    \A i \in DOMAIN RampWrites :
        /\ abs(RampWrites[i].sent) < abs(hw[1].sent)
        /\ i > 1 => abs(RampWrites[i].sent) < abs(RampWrites[i - 1].sent)



\* C23: a failing hardware write at any step of the Shutdown Sequence (a
\* ramp-down step or the reel-in command) does not abort it: the step after
\* a failed write is the one after a successful write, and a sequence that
\* is not interrupted ends with an attempted zero-current write.
C23_WriteFailureDoesNotAbort ==
    [][ /\ (pc = "ramp" /\ ~interrupted' /\ last'.failedMsg) =>
               /\ hw' = Append(hw, [req |-> (user_selected_current * RAMP_FACTORS[rampIdx]) \div 10,
                                    sent |-> WithinLimit((user_selected_current * RAMP_FACTORS[rampIdx]) \div 10),
                                    by |-> "ramp"])
               /\ rampIdx < 3 => pc' = "ramp" /\ rampIdx' = rampIdx + 1
               /\ rampIdx = 3 => pc' = "reel"
        /\ (pc = "reel" /\ ~interrupted' /\ last'.failedMsg) =>
               /\ hw' = Append(hw, [req |-> REEL_IN_CURRENT_A,
                                    sent |-> REEL_IN_CURRENT_A, by |-> "reel"])
               /\ pc' = "poll"
        /\ (pc' = "done" /\ ~interrupted') =>
               /\ hw'[Len(hw')].by = "final_stop"
               /\ hw'[Len(hw')].sent = 0
               /\ Cardinality({i \in DOMAIN hw' : hw'[i].by = "ramp"}) = 3
               /\ \E i \in DOMAIN hw' : hw'[i].by = "reel"
      ]_vars

\* a ramp or reel-in write failed, and the sequence went on to its final
\* stop, whose write succeeded
C23_Witness ==
    /\ pc = "done"
    /\ ~interrupted
    /\ writeFailed
    /\ LastHw.by = "final_stop"
    /\ ~last.failedMsg


\* C24: after a KeyboardInterrupt in the control loop (while holding, in a
\* skipped telemetry-failure cycle, or in the middle of the Shutdown
\* Sequence) the last current command written to the hardware is 0.0.
C24_InterruptEndsWithZero ==
    interrupted =>
        /\ pc = "done"
        /\ LastHw.sent = 0
        /\ LastHw.by = "interrupt_stop"

\* interrupted in the middle of the Shutdown Sequence, after the reel-in
\* current had been commanded
C24_Witness ==
    /\ interrupted
    /\ shutdowns = 1
    /\ Len(hw) > 1
    /\ hw[Len(hw) - 1].sent = REEL_IN_CURRENT_A
    /\ LastHw.sent = 0


\* no countdown thread is running
NoCountdownRunning == \A t \in Threads : ~is_alive(t)

\* C25: whenever no countdown thread is running the resistance pin is LOW:
\* every countdown that drove the pin HIGH drove it LOW again before its
\* thread finished, whether it completed, was cancelled through the stop
\* flag, or ended through the exception handler.
C25_PinLowWhenNoCountdown ==
    /\ NoCountdownRunning => resistance_pin = "LOW"
    /\ \A t \in Threads :
           (threads[t].at = "finished" /\ threads[t].high) => threads[t].low

\* thread t drove the pin HIGH and is still counting
Counting(t) ==
    /\ threads[t].at \in {"count", "sleep"}
    /\ threads[t].high
    /\ threads[t].remaining > 0

\* C26: the resistance pin stays HIGH for as long as any started countdown
\* is still counting: when two countdowns overlap, the first one finishing
\* does not switch the pin LOW while the second is still active.
C26_PinHighWhileCounting ==
    (~stop_countdown /\ use_gpio /\ \E t \in Threads : Counting(t)) =>
        resistance_pin = "HIGH"

\* cleanup_on_exit has returned
CleanupFinished == app.at \in {"destroyed", "exited"}

\* C27: after cleanup_on_exit set the stop flag no countdown thread signals
\* completion, every running thread terminates and has removed itself from
\* active_threads, and the resistance pin is LOW when cleanup has finished.
C27_CleanupStopsCountdowns ==
    /\ [][ /\ stop_countdown =>
                  \A t \in Threads :
                      threads'[t].how = "completed" => threads[t].how = "completed"
           /\ \A t \in Threads :
                  threads'[t].at = "finished" =>
                      \A i \in DOMAIN active_threads' : active_threads'[i] # t
           /\ CleanupFinished' => resistance_pin' = "LOW"
         ]_vars
    /\ stop_countdown ~> (NoCountdownRunning /\ active_threads = <<>>)

====
